---- MODULE Spec2Model ----
(***************************************************************************)
(* Scanner/beacon reconstruction of days/day19: the orientation table,     *)
(* try_update_scan (pairwise registration) and part1_2 (the map builder    *)
(* and the distance aggregation), as a state machine over the loop of      *)
(* part1_2.                                                                *)
(***************************************************************************)
EXTENDS Integers, Sequences, FiniteSets, TLC

VARIABLES
    lines,          \* the lines of the file parse_input reads; empty where the
                    \* Vec<Scan> is given directly
    input,          \* the Vec<Scan> handed to part1_2, as the caller built it
    scans,          \* part1_2's `scans`: the scans not merged yet
    complete_scan,  \* part1_2's `complete_scan`: the global beacon set
    distances,      \* part1_2's `distances`: the translations returned so far
    round_len,      \* end of the range (0..scans.len()) of the running for loop
    i,              \* the for loop's index, 1-based (scans[i]); 0 outside a loop
    ret,            \* what the last try_update_scan call returned
    result,         \* what part1_2 returned
    pc              \* position in part1_2

vars ==
    <<lines, input, scans, complete_scan, distances, round_len, i, ret, result, pc>>

-----------------------------------------------------------------------------
(* Vectors and matrices (nalgebra Vector3<isize>, Matrix3<isize>).          *)

VAdd(a, b) == <<a[1] + b[1], a[2] + b[2], a[3] + b[3]>>

VSub(a, b) == <<a[1] - b[1], a[2] - b[2], a[3] - b[3]>>

Abs(x) == IF x < 0 THEN -x ELSE x

\* (s1 - s2).abs().sum()
Manhattan(a, b) == Abs(a[1] - b[1]) + Abs(a[2] - b[2]) + Abs(a[3] - b[3])

\* base_transform_mtx * b, the matrix given by its rows
MatVec(m, v) ==
    << m[1][1] * v[1] + m[1][2] * v[2] + m[1][3] * v[3],
       m[2][1] * v[1] + m[2][2] * v[2] + m[2][3] * v[3],
       m[3][1] * v[1] + m[3][2] * v[2] + m[3][3] * v[3] >>

Range(s) == {s[k] : k \in DOMAIN s}

\* the table with its second matrix made a reflection (one sign slipped)
CHANGE_OF_BASIS_MATRIXES_Slip ==
    << <<<<1, 0, 0>>, <<0, 1, 0>>, <<0, 0, 1>>>>,
       <<<<1, 0, 0>>, <<0, -1, 0>>, <<0, 0, 1>>>>,
       <<<<1, 0, 0>>, <<0, 0, -1>>, <<0, 1, 0>>>>,
       <<<<1, 0, 0>>, <<0, 0, 1>>, <<0, -1, 0>>>>,
       <<<<-1, 0, 0>>, <<0, -1, 0>>, <<0, 0, 1>>>>,
       <<<<-1, 0, 0>>, <<0, 1, 0>>, <<0, 0, -1>>>>,
       <<<<-1, 0, 0>>, <<0, 0, 1>>, <<0, 1, 0>>>>,
       <<<<-1, 0, 0>>, <<0, 0, -1>>, <<0, -1, 0>>>>,
       <<<<0, -1, 0>>, <<1, 0, 0>>, <<0, 0, 1>>>>,
       <<<<0, 1, 0>>, <<1, 0, 0>>, <<0, 0, -1>>>>,
       <<<<0, 0, 1>>, <<1, 0, 0>>, <<0, 1, 0>>>>,
       <<<<0, 0, -1>>, <<1, 0, 0>>, <<0, -1, 0>>>>,
       <<<<0, 1, 0>>, <<-1, 0, 0>>, <<0, 0, 1>>>>,
       <<<<0, -1, 0>>, <<-1, 0, 0>>, <<0, 0, -1>>>>,
       <<<<0, 0, -1>>, <<-1, 0, 0>>, <<0, 1, 0>>>>,
       <<<<0, 0, 1>>, <<-1, 0, 0>>, <<0, -1, 0>>>>,
       <<<<0, 0, -1>>, <<0, 1, 0>>, <<1, 0, 0>>>>,
       <<<<0, 0, 1>>, <<0, -1, 0>>, <<1, 0, 0>>>>,
       <<<<0, 1, 0>>, <<0, 0, 1>>, <<1, 0, 0>>>>,
       <<<<0, -1, 0>>, <<0, 0, -1>>, <<1, 0, 0>>>>,
       <<<<0, 0, 1>>, <<0, 1, 0>>, <<-1, 0, 0>>>>,
       <<<<0, 0, -1>>, <<0, -1, 0>>, <<-1, 0, 0>>>>,
       <<<<0, 1, 0>>, <<0, 0, -1>>, <<-1, 0, 0>>>>,
       <<<<0, -1, 0>>, <<0, 0, 1>>, <<-1, 0, 0>>>> >>

\* the table with a quarter turn about z listed twice, its inverse left out
CHANGE_OF_BASIS_MATRIXES_Twice ==
    << <<<<1, 0, 0>>, <<0, 1, 0>>, <<0, 0, 1>>>>,
       <<<<1, 0, 0>>, <<0, -1, 0>>, <<0, 0, -1>>>>,
       <<<<1, 0, 0>>, <<0, 0, -1>>, <<0, 1, 0>>>>,
       <<<<1, 0, 0>>, <<0, 0, 1>>, <<0, -1, 0>>>>,
       <<<<-1, 0, 0>>, <<0, -1, 0>>, <<0, 0, 1>>>>,
       <<<<-1, 0, 0>>, <<0, 1, 0>>, <<0, 0, -1>>>>,
       <<<<-1, 0, 0>>, <<0, 0, 1>>, <<0, 1, 0>>>>,
       <<<<-1, 0, 0>>, <<0, 0, -1>>, <<0, -1, 0>>>>,
       <<<<0, -1, 0>>, <<1, 0, 0>>, <<0, 0, 1>>>>,
       <<<<0, 1, 0>>, <<1, 0, 0>>, <<0, 0, -1>>>>,
       <<<<0, 0, 1>>, <<1, 0, 0>>, <<0, 1, 0>>>>,
       <<<<0, 0, -1>>, <<1, 0, 0>>, <<0, -1, 0>>>>,
       <<<<0, -1, 0>>, <<1, 0, 0>>, <<0, 0, 1>>>>,
       <<<<0, -1, 0>>, <<-1, 0, 0>>, <<0, 0, -1>>>>,
       <<<<0, 0, -1>>, <<-1, 0, 0>>, <<0, 1, 0>>>>,
       <<<<0, 0, 1>>, <<-1, 0, 0>>, <<0, -1, 0>>>>,
       <<<<0, 0, -1>>, <<0, 1, 0>>, <<1, 0, 0>>>>,
       <<<<0, 0, 1>>, <<0, -1, 0>>, <<1, 0, 0>>>>,
       <<<<0, 1, 0>>, <<0, 0, 1>>, <<1, 0, 0>>>>,
       <<<<0, -1, 0>>, <<0, 0, -1>>, <<1, 0, 0>>>>,
       <<<<0, 0, 1>>, <<0, 1, 0>>, <<-1, 0, 0>>>>,
       <<<<0, 0, -1>>, <<0, -1, 0>>, <<-1, 0, 0>>>>,
       <<<<0, 1, 0>>, <<0, 0, -1>>, <<-1, 0, 0>>>>,
       <<<<0, -1, 0>>, <<0, 0, 1>>, <<-1, 0, 0>>>> >>

\* static CHANGE_OF_BASIS_MATRIXES: [Matrix3<isize>; 24], in table order
CHANGE_OF_BASIS_MATRIXES ==
    << <<<<1, 0, 0>>, <<0, 1, 0>>, <<0, 0, 1>>>>,
       <<<<1, 0, 0>>, <<0, -1, 0>>, <<0, 0, -1>>>>,
       <<<<1, 0, 0>>, <<0, 0, -1>>, <<0, 1, 0>>>>,
       <<<<1, 0, 0>>, <<0, 0, 1>>, <<0, -1, 0>>>>,
       <<<<-1, 0, 0>>, <<0, -1, 0>>, <<0, 0, 1>>>>,
       <<<<-1, 0, 0>>, <<0, 1, 0>>, <<0, 0, -1>>>>,
       <<<<-1, 0, 0>>, <<0, 0, 1>>, <<0, 1, 0>>>>,
       <<<<-1, 0, 0>>, <<0, 0, -1>>, <<0, -1, 0>>>>,
       <<<<0, -1, 0>>, <<1, 0, 0>>, <<0, 0, 1>>>>,
       <<<<0, 1, 0>>, <<1, 0, 0>>, <<0, 0, -1>>>>,
       <<<<0, 0, 1>>, <<1, 0, 0>>, <<0, 1, 0>>>>,
       <<<<0, 0, -1>>, <<1, 0, 0>>, <<0, -1, 0>>>>,
       <<<<0, 1, 0>>, <<-1, 0, 0>>, <<0, 0, 1>>>>,
       <<<<0, -1, 0>>, <<-1, 0, 0>>, <<0, 0, -1>>>>,
       <<<<0, 0, -1>>, <<-1, 0, 0>>, <<0, 1, 0>>>>,
       <<<<0, 0, 1>>, <<-1, 0, 0>>, <<0, -1, 0>>>>,
       <<<<0, 0, -1>>, <<0, 1, 0>>, <<1, 0, 0>>>>,
       <<<<0, 0, 1>>, <<0, -1, 0>>, <<1, 0, 0>>>>,
       <<<<0, 1, 0>>, <<0, 0, 1>>, <<1, 0, 0>>>>,
       <<<<0, -1, 0>>, <<0, 0, -1>>, <<1, 0, 0>>>>,
       <<<<0, 0, 1>>, <<0, 1, 0>>, <<-1, 0, 0>>>>,
       <<<<0, 0, -1>>, <<0, -1, 0>>, <<-1, 0, 0>>>>,
       <<<<0, 1, 0>>, <<0, 0, -1>>, <<-1, 0, 0>>>>,
       <<<<0, -1, 0>>, <<0, 0, 1>>, <<-1, 0, 0>>>> >>

\* the threshold one too high
OverlapThreshold_Strict == 12 + 1

\* the threshold one too low
OverlapThreshold_Loose == 12 - 1

\* the threshold of `if overlap_count >= 12`
OverlapThreshold == 12

-----------------------------------------------------------------------------
(* try_update_scan                                                          *)

\* transformed_beacons: beacons.iter().map(|b| base_transform_mtx * b)
Transformed(mtx, beacons) ==
    [k \in 1..Len(beacons) |-> MatVec(CHANGE_OF_BASIS_MATRIXES[mtx], beacons[k])]

\* translated_beacons_iter: transformed_beacons.iter().map(|b| b + dist)
Translated(tb, dist) == [k \in 1..Len(tb) |-> VAdd(tb[k], dist)]

\* overlap_count: one count per element of the Vec whose translate is in the set
OverlapCount(ref, tb, dist) ==
    Cardinality({k \in 1..Len(tb) : VAdd(tb[k], dist) \in ref})

\* the least element of a set of positions, 0 for the empty set
Least(S) == IF S = {} THEN 0 ELSE CHOOSE k \in S : \A j \in S : k <= j

\* only the last beacon of the Vec taken as dest
AcceptedDests_LastOnly(ref, tb, orig) ==
    {k \in {Len(tb)} \ {0} :
        OverlapCount(ref, tb, VSub(orig, tb[k])) >= OverlapThreshold}

\* For one `orig` of complete_scan.iter(): the `dest`s of transformed_beacons,
\* by position, whose distance orig - dest is accepted.
AcceptedDests(ref, tb, orig) ==
    {k \in 1..Len(tb) :
        OverlapCount(ref, tb, VSub(orig, tb[k])) >= OverlapThreshold}

\* cartesian_product runs the Vec in order inside each orig: the first dest
\* whose distance is accepted; 0 when this orig yields no accepted distance.
FirstDest(ref, tb, orig) == Least(AcceptedDests(ref, tb, orig))

\* The elements of the set that yield an accepted distance under matrix mtx.
AcceptingOrigs(ref, beacons, mtx) ==
    LET tb == Transformed(mtx, beacons)
    IN  {orig \in ref : AcceptedDests(ref, tb, orig) # {}}

\* the search started at the second matrix of the table
FirstMatrix_SkipFirst(ref, beacons) ==
    Least({mtx \in 2..Len(CHANGE_OF_BASIS_MATRIXES) :
              AcceptingOrigs(ref, beacons, mtx) # {}})

\* the search given up after the first half of the table
FirstMatrix_Half(ref, beacons) ==
    Least({mtx \in 1..(Len(CHANGE_OF_BASIS_MATRIXES) \div 2) :
              AcceptingOrigs(ref, beacons, mtx) # {}})

\* the last matrix of the table under which some distance is accepted
FirstMatrix_Last(ref, beacons) ==
    LET found == {mtx \in 1..Len(CHANGE_OF_BASIS_MATRIXES) :
                     AcceptingOrigs(ref, beacons, mtx) # {}}
    IN  IF found = {} THEN 0 ELSE CHOOSE k \in found : \A j \in found : j <= k

\* for base_transform_mtx in &CHANGE_OF_BASIS_MATRIXES: the first matrix of the
\* table under which some distance is accepted (the search returns there);
\* 0 when the whole search is exhausted.
FirstMatrix(ref, beacons) ==
    Least({mtx \in 1..Len(CHANGE_OF_BASIS_MATRIXES) :
              AcceptingOrigs(ref, beacons, mtx) # {}})

None == [some |-> FALSE, dist |-> <<0, 0, 0>>, mtx |-> 0]

\* the set replaced by the translated beacons, not extended with them
Accept_Replace(ref, tb, mtx, dist) ==
    [ret |-> [some |-> TRUE, dist |-> dist, mtx |-> mtx],
     complete_scan |-> Range(Translated(tb, dist))]

\* the set extended with the overlapping translated beacons only
Accept_Filtered(ref, tb, mtx, dist) ==
    [ret |-> [some |-> TRUE, dist |-> dist, mtx |-> mtx],
     complete_scan |-> ref \cup (Range(Translated(tb, dist)) \cap ref)]

\* the set extended with transformed_beacons, the translation left out
Accept_Untranslated(ref, tb, mtx, dist) ==
    [ret |-> [some |-> TRUE, dist |-> dist, mtx |-> mtx],
     complete_scan |-> ref \cup Range(tb)]

\* the set extended with the beacons both as translated and as transformed
Accept_Both(ref, tb, mtx, dist) ==
    [ret |-> [some |-> TRUE, dist |-> dist, mtx |-> mtx],
     complete_scan |-> ref \cup Range(Translated(tb, dist)) \cup Range(tb)]

\* if overlap_count >= 12 { complete_scan.extend(translated_beacons_iter);
\* return Some(dist); } with dist the accepted distance of this orig
Accept(ref, tb, mtx, dist) ==
    [ret |-> [some |-> TRUE, dist |-> dist, mtx |-> mtx],
     complete_scan |-> ref \cup Range(Translated(tb, dist))]

\* the set extended before the count is compared, so that an exhausted search
\* leaves the beacons of its last trial in the set
TryUpdateScan_Eager(ref, beacons) ==
    LET mtx == FirstMatrix(ref, beacons)
        tb == Transformed(mtx, beacons)
    IN  IF mtx = 0
        THEN {[ret |-> None,
               complete_scan |-> ref \cup
                   Range(Transformed(Len(CHANGE_OF_BASIS_MATRIXES), beacons))]}
        ELSE {Accept(ref, tb, mtx, VSub(orig, tb[FirstDest(ref, tb, orig)])) :
                 orig \in AcceptingOrigs(ref, beacons, mtx)}

\* an empty set taken as "nothing to compare with": the scan is accepted at
\* the origin and seeds the set
TryUpdateScan_SeedsEmpty(ref, beacons) ==
    LET mtx == FirstMatrix(ref, beacons)
        tb == Transformed(mtx, beacons)
    IN  IF ref = {}
        THEN {Accept(ref, Transformed(1, beacons), 1, <<0, 0, 0>>)}
        ELSE IF mtx = 0
        THEN {[ret |-> None, complete_scan |-> ref]}
        ELSE {Accept(ref, tb, mtx, VSub(orig, tb[FirstDest(ref, tb, orig)])) :
                 orig \in AcceptingOrigs(ref, beacons, mtx)}

\* The outcomes of try_update_scan(&mut complete_scan, scan).  FxHashSet::iter
\* runs the set in an order the program does not fix, so under the first
\* accepting matrix any accepting orig can be the first one met; within it the
\* dest is the first of the Vec.  Each outcome is the returned Option (with the
\* matrix in use at the return) and the set as the call leaves it.
TryUpdateScan(ref, beacons) ==
    LET mtx == FirstMatrix(ref, beacons)
        tb == Transformed(mtx, beacons)
    IN  IF mtx = 0
        THEN {[ret |-> None, complete_scan |-> ref]}
        ELSE {Accept(ref, tb, mtx, VSub(orig, tb[FirstDest(ref, tb, orig)])) :
                 orig \in AcceptingOrigs(ref, beacons, mtx)}

-----------------------------------------------------------------------------
(* The inputs: scans as scanners at known poses would report them.          *)

\* Twelve beacons in general position, and twelve more well apart from them.
ClusterA ==
    << <<-3, -1, -3>>, <<-3, 3, 0>>, <<-2, -3, 0>>, <<-2, 1, 3>>,
       <<-1, -3, 0>>, <<0, -1, 2>>, <<0, 1, 3>>, <<2, 0, 3>>,
       <<3, -3, 2>>, <<3, -2, 1>>, <<3, 0, 0>>, <<3, 3, -3>> >>

ClusterB ==
    << <<6, -3, -1>>, <<6, 3, -3>>, <<7, 1, -3>>, <<8, -1, 1>>,
       <<8, 0, -1>>, <<9, 1, -1>>, <<9, 2, 0>>, <<10, -1, 1>>,
       <<10, 2, -2>>, <<12, -2, 2>>, <<12, 2, 3>>, <<12, 3, -3>> >>

Transpose(m) ==
    << <<m[1][1], m[2][1], m[3][1]>>,
       <<m[1][2], m[2][2], m[3][2]>>,
       <<m[1][3], m[2][3], m[3][3]>> >>

\* What a scanner at position pos, turned by table matrix mtx, reports of pts.
View(pts, mtx, pos) ==
    [k \in 1..Len(pts) |->
        MatVec(Transpose(CHANGE_OF_BASIS_MATRIXES[mtx]), VSub(pts[k], pos))]

ScanA == ClusterA \o << <<5, 5, 5>> >>

ScanA1 == View(ClusterA \o << <<-6, 2, 1>> >>, 10, <<2, -7, 1>>)

ScanAB == View(ClusterA \o ClusterB, 18, <<4, 6, -2>>)

ScanB == View(ClusterB \o << <<15, 0, 4>> >>, 4, <<5, 7, -2>>)

\* eleven beacons of cluster A and two strangers
ScanA11 == View(SubSeq(ClusterA, 1, 11) \o << <<7, 7, 7>>, <<-7, 2, 5>> >>, 7, <<-1, 3, 2>>)

\* eleven beacons of cluster A, one of them listed twice, and a stranger
ScanDup == View(SubSeq(ClusterA, 1, 11) \o << ClusterA[11], <<-5, -5, 4>> >>, 21, <<3, 1, -4>>)

\* thirteen equally spaced beacons on a line
ScanLine == [k \in 1..13 |-> <<k - 1, 0, 0>>]

ScanSmall == << <<1, 2, 3>>, <<-2, 0, 4>>, <<0, 5, -1>> >>

ScanEmpty == << >>

Library ==
    {ScanA, ScanA1, ScanAB, ScanB, ScanA11, ScanDup, ScanLine, ScanSmall, ScanEmpty}

\* longer inputs: scans that chain, scans that do not, copies, an empty scan
Scenarios ==
    { <<ScanA, ScanB, ScanAB, ScanA1>>,
      <<ScanA, ScanAB, ScanB, ScanA11>>,
      <<ScanA, ScanA1, ScanAB, ScanB>>,
      <<ScanAB, ScanB, ScanA1, ScanDup>>,
      <<ScanA, ScanA, ScanDup, ScanAB>>,
      <<ScanA, ScanA11, ScanA1>>,
      <<ScanA, ScanDup, ScanA11>>,
      <<ScanLine, ScanLine, ScanSmall>>,
      <<ScanB, ScanAB, ScanEmpty>>,
      <<ScanA, ScanA1, ScanEmpty>> }

MaxScans == 3

Min(a, b) == IF a < b THEN a ELSE b

\* parse_input saves a scan at a header line only if it has content, and the
\* last scan as it is: only the last scan of an input can be empty.
WellFormed(in) == \A k \in 1..(Len(in) - 1) : in[k] # << >>

\* every input of one or two scans of the library, and the scenarios cut at
\* MaxScans scans
Inputs ==
    {in \in {<<a>> : a \in Library}
              \cup {<<a, b>> : a \in Library, b \in Library}
              \cup {SubSeq(sc, 1, Min(MaxScans, Len(sc))) : sc \in Scenarios} :
        WellFormed(in)}

-----------------------------------------------------------------------------
(* part1_2                                                                  *)

NoResult == <<0, 0>>

Init ==
    /\ lines = << >>
    /\ input \in Inputs
    /\ scans = input
    /\ complete_scan = {}
    /\ distances = << >>
    /\ round_len = 0
    /\ i = 0
    /\ ret = None
    /\ result = NoResult
    /\ pc = "seed"

\* the map seeded from scan 0 without taking scan 0 out of `scans`
Seed_KeepFirst ==
    /\ pc = "seed"
    /\ complete_scan' = Range(scans[1])
    /\ scans' = scans
    /\ distances' = << >>
    /\ pc' = "while"
    /\ UNCHANGED <<lines, input, round_len, i, ret, result>>

\* let mut complete_scan = scans.remove(0).beacons.into_iter().collect();
\* let mut distances = Vec::new();
Seed ==
    /\ pc = "seed"
    /\ complete_scan' = Range(scans[1])
    /\ scans' = Tail(scans)
    /\ distances' = << >>
    /\ pc' = "while"
    /\ UNCHANGED <<lines, input, round_len, i, ret, result>>

\* the loop left after one round, whatever is left in scans
While_OneRound ==
    /\ pc = "while"
    /\ IF scans = << >> \/ round_len > 0
       THEN /\ pc' = "aggregate"
            /\ UNCHANGED <<round_len, i>>
       ELSE /\ round_len' = Len(scans)
            /\ i' = Len(scans)
            /\ pc' = "for"
    /\ UNCHANGED <<lines, input, scans, complete_scan, distances, ret, result>>

\* while !scans.is_empty() { for i in (0..scans.len()).rev() {
While ==
    /\ pc = "while"
    /\ IF scans = << >>
       THEN /\ pc' = "aggregate"
            /\ UNCHANGED <<round_len, i>>
       ELSE /\ round_len' = Len(scans)
            /\ i' = Len(scans)
            /\ pc' = "for"
    /\ UNCHANGED <<lines, input, scans, complete_scan, distances, ret, result>>

\* the last element removed, whatever the index asked for
SwapRemove_Pop(v, k) == SubSeq(v, 1, Len(v) - 1)

\* Vec::swap_remove(i): the last element takes the place of the removed one
SwapRemove(v, k) ==
    [j \in 1..(Len(v) - 1) |-> IF j = k THEN v[Len(v)] ELSE v[j]]

\* every scan tested against scan 0's beacons alone, not against the map as
\* the registrations so far have enlarged it
Attempt_Snapshot ==
    /\ pc = "for"
    /\ \E out \in TryUpdateScan(Range(input[1]), scans[i]) :
          /\ ret' = out.ret
          /\ complete_scan' = complete_scan \cup out.complete_scan
          /\ IF out.ret.some
             THEN /\ distances' = Append(distances, out.ret.dist)
                  /\ scans' = SwapRemove(scans, i)
             ELSE UNCHANGED <<distances, scans>>
    /\ IF i > 1
       THEN i' = i - 1 /\ pc' = "for"
       ELSE i' = 0 /\ pc' = "while"
    /\ UNCHANGED <<lines, input, round_len, result>>

\* a scan that failed is dropped from `scans` like one that registered
Attempt_DropFailed ==
    /\ pc = "for"
    /\ \E out \in TryUpdateScan(complete_scan, scans[i]) :
          /\ ret' = out.ret
          /\ complete_scan' = out.complete_scan
          /\ scans' = SwapRemove(scans, i)
          /\ IF out.ret.some
             THEN distances' = Append(distances, out.ret.dist)
             ELSE UNCHANGED distances
    /\ IF i > 1
       THEN i' = i - 1 /\ pc' = "for"
       ELSE i' = 0 /\ pc' = "while"
    /\ UNCHANGED <<lines, input, round_len, result>>

\* the offset of a registered scan recorded, the scan left in `scans`
Attempt_KeepRegistered ==
    /\ pc = "for"
    /\ \E out \in TryUpdateScan(complete_scan, scans[i]) :
          /\ ret' = out.ret
          /\ complete_scan' = out.complete_scan
          /\ IF out.ret.some
             THEN distances' = Append(distances, out.ret.dist)
             ELSE UNCHANGED distances
          /\ UNCHANGED scans
    /\ IF i > 1
       THEN i' = i - 1 /\ pc' = "for"
       ELSE i' = 0 /\ pc' = "while"
    /\ UNCHANGED <<lines, input, round_len, result>>

\* the for loop left at the first success, the scans before it not tried
Attempt_BreakOnSuccess ==
    /\ pc = "for"
    /\ \E out \in TryUpdateScan(complete_scan, scans[i]) :
          /\ ret' = out.ret
          /\ complete_scan' = out.complete_scan
          /\ IF out.ret.some
             THEN /\ distances' = Append(distances, out.ret.dist)
                  /\ scans' = SwapRemove(scans, i)
                  /\ i' = 0 /\ pc' = "while"
             ELSE /\ UNCHANGED <<distances, scans>>
                  /\ IF i > 1
                     THEN i' = i - 1 /\ pc' = "for"
                     ELSE i' = 0 /\ pc' = "while"
    /\ UNCHANGED <<lines, input, round_len, result>>

\* if let Some(dist) = try_update_scan(&mut complete_scan, &scans[i]) {
\*     distances.push(dist); scans.swap_remove(i); }
Attempt ==
    /\ pc = "for"
    /\ \E out \in TryUpdateScan(complete_scan, scans[i]) :
          /\ ret' = out.ret
          /\ complete_scan' = out.complete_scan
          /\ IF out.ret.some
             THEN /\ distances' = Append(distances, out.ret.dist)
                  /\ scans' = SwapRemove(scans, i)
             ELSE UNCHANGED <<distances, scans>>
    /\ IF i > 1
       THEN i' = i - 1 /\ pc' = "for"
       ELSE i' = 0 /\ pc' = "while"
    /\ UNCHANGED <<lines, input, round_len, result>>

\* the differences summed without abs(): the value turns with the order in
\* which the two offsets were recorded
PairDistances_Signed(ds) ==
    {(ds[p[1]][1] - ds[p[2]][1]) + (ds[p[1]][2] - ds[p[2]][2])
        + (ds[p[1]][3] - ds[p[2]][3]) :
        p \in {q \in (1..Len(ds)) \X (1..Len(ds)) : q[1] < q[2]}}

\* distances.iter().tuple_combinations().map(|(s1, s2)| (s1 - s2).abs().sum())
PairDistances(ds) ==
    {Manhattan(ds[p[1]], ds[p[2]]) :
        p \in {q \in (1..Len(ds)) \X (1..Len(ds)) : q[1] < q[2]}}

SetMax(S) == CHOOSE x \in S : \A y \in S : y <= x

\* the number of beacons the scans list, all scans together
RECURSIVE Entries(_)
Entries(in) == IF in = << >> THEN 0 ELSE Len(Head(in)) + Entries(Tail(in))

\* the beacons counted as the scans list them, shared ones once per scan
Aggregate_CountEntries ==
    /\ pc = "aggregate"
    /\ IF Len(distances) < 2
       THEN pc' = "panic" /\ UNCHANGED result
       ELSE /\ result' = <<Entries(input), SetMax(PairDistances(distances))>>
            /\ pc' = "done"
    /\ UNCHANGED <<lines, input, scans, complete_scan, distances, round_len, i, ret>>

\* let max_distance = ... .max().unwrap(); (complete_scan.len(), max_distance)
Aggregate ==
    /\ pc = "aggregate"
    /\ IF Len(distances) < 2
       THEN pc' = "panic" /\ UNCHANGED result
       ELSE /\ result' = <<Cardinality(complete_scan), SetMax(PairDistances(distances))>>
            /\ pc' = "done"
    /\ UNCHANGED <<lines, input, scans, complete_scan, distances, round_len, i, ret>>

Next == Seed \/ While \/ Attempt \/ Aggregate

Spec == Init /\ [][Next]_vars

\* The program runs on: every step that can be taken is taken.  Attempt can
\* be taken exactly when pc = "for" (try_update_scan returns on every set and
\* scan, and the step moves the loop index), which AttemptFair spells out in
\* place of ENABLED <<Attempt>>_vars.
AttemptFair == []<>(pc # "for") \/ []<><<Attempt>>_vars

LiveSpec ==
    Spec /\ WF_vars(Seed) /\ WF_vars(While) /\ WF_vars(Aggregate) /\ AttemptFair

-----------------------------------------------------------------------------
(* try_update_scan called on its own: any set and any scan of the library,  *)
(* an empty set and a scan of no beacon among them.                         *)

\* the call try_update_scan(&mut complete_scan, &scans[0]) about to be made,
\* complete_scan the beacons of input[1] and the scan input[2]
CallInit ==
    /\ lines = << >>
    /\ input \in {<<a, b>> : a \in Library, b \in Library}
    /\ scans = <<input[2]>>
    /\ complete_scan = Range(input[1])
    /\ distances = << >>
    /\ round_len = 0
    /\ i = 0
    /\ ret = None
    /\ result = NoResult
    /\ pc = "call"

Call ==
    /\ pc = "call"
    /\ \E out \in TryUpdateScan(complete_scan, scans[1]) :
          /\ ret' = out.ret
          /\ complete_scan' = out.complete_scan
    /\ pc' = "returned"
    /\ UNCHANGED <<lines, input, scans, distances, round_len, i, result>>

\* the runs of part1_2 together with the calls of try_update_scan on its own
CallStart == Init \/ CallInit

CallNext == Next \/ Call

CallSpec == CallStart /\ [][CallNext]_vars

-----------------------------------------------------------------------------
(* parse_input                                                              *)

\* A line of the file, as the loop tells lines apart: empty, starting with
\* "---", or a list of comma-separated numbers (given as the numbers; their
\* reading from text is str::parse and is not part of this model).
BlankLine == [kind |-> "blank", fields |-> << >>]

HeaderLine == [kind |-> "header", fields |-> << >>]

PointLine(fields) == [kind |-> "point", fields |-> fields]

\* the lines the files are made of; one has a fourth field
LineKinds ==
    {BlankLine, HeaderLine,
     PointLine(<<1, 2, 3>>), PointLine(<<-4, 5, 6>>), PointLine(<<7, 8, 9, 10>>)}

MaxLines == 4

RECURSIVE Files(_)
Files(n) ==
    IF n = 0
    THEN {<< >>}
    ELSE LET shorter == Files(n - 1)
         IN  shorter \cup {Append(f, l) : f \in shorter, l \in LineKinds}

\* Vector3::from_iterator(line.split(',').take(3).map(parse))
Beacon(line) == SubSeq(line.fields, 1, 3)

\* the for loop over the lines from `rest` on, with `scans` and
\* `curr_scan_vec` as they stand, and the push after the loop
RECURSIVE ParseLines(_, _, _)
ParseLines(rest, parsed, curr_scan_vec) ==
    IF rest = << >>
    THEN Append(parsed, curr_scan_vec)
    ELSE LET line == Head(rest)
         IN  IF line.kind = "blank"
             THEN ParseLines(Tail(rest), parsed, curr_scan_vec)
             ELSE IF line.kind = "header"
             THEN IF curr_scan_vec # << >>
                  THEN ParseLines(Tail(rest), Append(parsed, curr_scan_vec), << >>)
                  ELSE ParseLines(Tail(rest), parsed, curr_scan_vec)
             ELSE ParseLines(Tail(rest), parsed, Append(curr_scan_vec, Beacon(line)))

\* parse_input: scans and curr_scan_vec start empty
ParseInput(file) == ParseLines(file, << >>, << >>)

ParseInit ==
    /\ lines \in Files(MaxLines)
    /\ input = << >>
    /\ scans = << >>
    /\ complete_scan = {}
    /\ distances = << >>
    /\ round_len = 0
    /\ i = 0
    /\ ret = None
    /\ result = NoResult
    /\ pc = "parse"

\* let scans = parse_input("inputs/day19")?;
Parse ==
    /\ pc = "parse"
    /\ input' = ParseInput(lines)
    /\ scans' = input'
    /\ pc' = "parsed"
    /\ UNCHANGED <<lines, complete_scan, distances, round_len, i, ret, result>>

ParseSpec == ParseInit /\ [][Parse]_vars

-----------------------------------------------------------------------------
(* Notions the properties are stated in.                                    *)

Orientations == 1..Len(CHANGE_OF_BASIS_MATRIXES)

\* beacon b as an orientation mtx and a translation t place it
Placed(mtx, t, b) == VAdd(MatVec(CHANGE_OF_BASIS_MATRIXES[mtx], b), t)

\* the beacons (positions in the Vec) of a scan that mtx and t place on ref
Coinciding(ref, beacons, mtx, t) ==
    {k \in 1..Len(beacons) : Placed(mtx, t, beacons[k]) \in ref}

\* A translation under which no beacon lands on ref counts 0, so the ones to
\* look at are those carrying some placed beacon onto some point of ref.
Translations(ref, beacons, mtx) ==
    {VSub(r, MatVec(CHANGE_OF_BASIS_MATRIXES[mtx], beacons[k])) :
        r \in ref, k \in 1..Len(beacons)}

\* some orientation and translation place at least n beacons of the scan on ref
Alignable(ref, beacons, n) ==
    \E m \in Orientations : \E t \in Translations(ref, beacons, m) :
        Cardinality(Coinciding(ref, beacons, m, t)) >= n

\* the scan the running for loop has just tried and kept (a failed attempt)
JustFailed ==
    /\ pc \in {"for", "while"}
    /\ round_len > 0
    /\ i < round_len
    /\ ~ret.some

-----------------------------------------------------------------------------
(* C1: a complete round that removes no scan while scans remain ends in a    *)
(* STUCK failure state, no further round is started.  The while loop has no *)
(* such exit: from pc = "while" with the scans of the last round all still  *)
(* there it starts the next round.                                          *)
C1_IdleRoundStops ==
    [][(pc = "while" /\ scans # << >> /\ round_len = Len(scans)) => pc' = "stuck"]_vars

-----------------------------------------------------------------------------
(* C2: when every scan is linked to scan 0 by a chain of scans, consecutive *)
(* ones sharing at least 12 beacons under some table orientation and        *)
(* translation, every scan is registered in the end: the loop is left with  *)
(* no scan remaining.                                                       *)

\* At least 12 distinct beacons of a, suitably placed, are beacons of b.  When
\* 12 beacons of a are placed on b, at most Len(a) - 12 are not, so one of the
\* first Len(a) - 11 is: the translations that carry one of these onto a
\* beacon of b are all that need be looked at.
Overlapping(a, b) ==
    \E m \in Orientations : \E k \in 1..(Len(a) - 11) : \E r \in Range(b) :
        LET t == VSub(r, MatVec(CHANGE_OF_BASIS_MATRIXES[m], a[k]))
        IN  Cardinality({Placed(m, t, a[j]) : j \in Coinciding(Range(b), a, m, t)}) >= 12

\* the scans linked to scan 0 through the scans of S
RECURSIVE LinkedTo(_, _)
LinkedTo(in, S) ==
    LET more == {j \in DOMAIN in \ S : \E k \in S : Overlapping(in[j], in[k])}
    IN  IF more = {} THEN S ELSE LinkedTo(in, S \cup more)

ChainLinked(in) == LinkedTo(in, {1}) = DOMAIN in

AllRegistered == pc = "aggregate" /\ scans = << >>

C2_LinkedScansAllRegistered == (pc = "seed" /\ ChainLinked(input)) ~> AllRegistered

\* three scans, one of them linked to scan 0 only through another, all merged
C2_Witness ==
    /\ AllRegistered
    /\ Len(input) >= 3
    /\ ChainLinked(input)
    /\ \E j \in DOMAIN input : ~Overlapping(input[j], input[1])

-----------------------------------------------------------------------------
(* C3: the table holds exactly 24 pairwise distinct matrices, each a signed *)
(* permutation matrix of determinant +1, and the 24 images of the standard  *)
(* basis are pairwise distinct; the matrix try_update_scan returns under is  *)
(* one of the 24.                                                           *)

Det(m) ==
      m[1][1] * (m[2][2] * m[3][3] - m[2][3] * m[3][2])
    - m[1][2] * (m[2][1] * m[3][3] - m[2][3] * m[3][1])
    + m[1][3] * (m[2][1] * m[3][2] - m[2][2] * m[3][1])

\* one entry +1 or -1 in every row and every column, 0 elsewhere
SignedPermutation(m) ==
    /\ \A r \in 1..3, c \in 1..3 : m[r][c] \in {-1, 0, 1}
    /\ \A r \in 1..3 : Cardinality({c \in 1..3 : m[r][c] # 0}) = 1
    /\ \A c \in 1..3 : Cardinality({r \in 1..3 : m[r][c] # 0}) = 1

StandardBasis == << <<1, 0, 0>>, <<0, 1, 0>>, <<0, 0, 1>> >>

BasisImage(m) == [k \in 1..3 |-> MatVec(m, StandardBasis[k])]

C3_TableIsTheRotations ==
    /\ ret.some => ret.mtx \in 1..24
    /\ Len(CHANGE_OF_BASIS_MATRIXES) = 24
    /\ \A a, b \in Orientations :
          a # b => CHANGE_OF_BASIS_MATRIXES[a] # CHANGE_OF_BASIS_MATRIXES[b]
    /\ \A a \in Orientations :
          /\ SignedPermutation(CHANGE_OF_BASIS_MATRIXES[a])
          /\ Det(CHANGE_OF_BASIS_MATRIXES[a]) = 1
    /\ Cardinality({BasisImage(CHANGE_OF_BASIS_MATRIXES[a]) : a \in Orientations}) = 24

\* a registration accepted under a matrix of the table other than the identity
C3_Witness ==
    /\ ret.some
    /\ ret.mtx > 1
    /\ Det(CHANGE_OF_BASIS_MATRIXES[ret.mtx]) = 1

-----------------------------------------------------------------------------
(* C4: no step removes or changes a beacon of the global map: the map after *)
(* a try_update_scan call, successful or not, contains the map before it.   *)
C4_MapOnlyGrows == [][complete_scan \subseteq complete_scan']_vars

\* the map has grown beyond scan 0, and the last attempt was a failed one
C4_Witness ==
    /\ JustFailed
    /\ Len(distances) >= 1
    /\ Cardinality(complete_scan) > Cardinality(Range(input[1]))

-----------------------------------------------------------------------------
(* C5: when under every orientation and every translation fewer than 12     *)
(* beacons of the candidate scan coincide with beacons of the reference,    *)
(* try_update_scan returns None, nothing fails, the reference is unchanged. *)
(* The scan's beacons are counted as the Vec lists them.                    *)
C5_NoAlignmentFails ==
    [][(pc = "for" /\ ~Alignable(complete_scan, scans[i], 12))
          => /\ ~ret'.some
             /\ complete_scan' = complete_scan
             /\ scans' = scans /\ distances' = distances
             /\ pc' \in {"for", "while"}]_vars

\* a failed attempt on a scan that 11 beacons, and no more, can be placed on
\* the map
C5_Witness ==
    /\ JustFailed
    /\ Alignable(complete_scan, scans[i + 1], 11)
    /\ ~Alignable(complete_scan, scans[i + 1], 12)

-----------------------------------------------------------------------------
(* C6, as stated: registering a scan against a reference that is an         *)
(* identical copy of its beacons succeeds with the identity orientation and *)
(* zero translation, every beacon overlapping, the reference left as it was.*)
Zero == <<0, 0, 0>>

AllCoincide(ref, beacons, mtx, t) ==
    Coinciding(ref, beacons, mtx, t) = 1..Len(beacons)

C6_SelfCopyAtZero ==
    [][(pc = "for" /\ Range(scans[i]) = complete_scan)
          => /\ ret'.some
             /\ ret'.mtx = 1
             /\ ret'.dist = Zero
             /\ AllCoincide(complete_scan, scans[i], 1, ret'.dist)
             /\ complete_scan' = complete_scan]_vars

\* no translation other than zero places 12 or more beacons of the scan on
\* beacons of the scan
NoSelfShift(beacons) ==
    \A t \in Translations(Range(beacons), beacons, 1) \ {Zero} :
        Cardinality(Coinciding(Range(beacons), beacons, 1, t)) < 12

(* C6, amended: registering a scan of at least 12 beacons against a         *)
(* reference that is an identical copy of its beacons succeeds with the     *)
(* identity orientation and at least 12 beacons overlapping; when no        *)
(* non-zero translation places 12 or more of the scan's beacons on beacons  *)
(* of the scan, the translation is zero, every beacon overlaps and the      *)
(* reference is left as it was.                                             *)
C6_SelfCopyRegisters ==
    [][(pc = "for" /\ Range(scans[i]) = complete_scan /\ Len(scans[i]) >= 12)
          => /\ ret'.some
             /\ ret'.mtx = 1
             /\ Cardinality(Coinciding(complete_scan, scans[i], 1, ret'.dist)) >= 12
             /\ NoSelfShift(scans[i])
                   => /\ ret'.dist = Zero
                      /\ AllCoincide(complete_scan, scans[i], 1, ret'.dist)
                      /\ complete_scan' = complete_scan]_vars

\* a copy of scan 0 registered on scan 0 alone, at zero, the map unchanged
C6_Witness ==
    /\ Len(distances) = 1
    /\ ret = [some |-> TRUE, dist |-> Zero, mtx |-> 1]
    /\ complete_scan = Range(input[1])
    /\ \E j \in 2..Len(input) :
          /\ Range(input[j]) = Range(input[1])
          /\ Len(input[j]) >= 12
          /\ NoSelfShift(input[j])

-----------------------------------------------------------------------------
(* C7: when try_update_scan returns Some(t), some orientation R of the      *)
(* table places at least 12 of the scan's beacons, as R*b + t, on the       *)
(* reference as it was, and the reference after the call is the old one     *)
(* united with all the points R*b + t, never with a part of them.           *)
C7_AcceptedScanMergedWhole ==
    [][(pc = "for" /\ ret'.some)
          => \E m \in Orientations :
                /\ Cardinality(Coinciding(complete_scan, scans[i], m, ret'.dist)) >= 12
                /\ complete_scan' = complete_scan \cup
                      {Placed(m, ret'.dist, scans[i][k]) : k \in 1..Len(scans[i])}]_vars

\* the last call returned Some(t) and brought beacons the map did not have
C7_Witness ==
    /\ ret.some
    /\ Len(distances) >= 1
    /\ distances[Len(distances)] = ret.dist
    /\ ret.dist # Zero
    /\ ~(complete_scan \subseteq Range(input[1]))

-----------------------------------------------------------------------------
(* C8: whenever try_update_scan returns None the reference set is the set   *)
(* it was before the call.                                                  *)
C8_FailureLeavesReference ==
    [][(pc = "for" /\ ~ret'.some) => complete_scan' = complete_scan]_vars

\* a failed search over a scan of 12 beacons or more, the map still scan 0's
C8_Witness ==
    /\ JustFailed
    /\ Len(scans[i + 1]) >= 12
    /\ distances = << >>
    /\ complete_scan = Range(input[1])

-----------------------------------------------------------------------------
(* C9: every beacon of the global map is a beacon of scan 0 or the image    *)
(* R*b + t of a beacon b of a scan accepted with an overlap of at least 12, *)
(* R the orientation it was accepted under and t its recorded offset.  In   *)
(* inductive form: the map starts empty, and a beacon enters it either from *)
(* scan 0 at the seeding or as such an image in the step that accepts the   *)
(* scan and records t.  The overlap is counted as the Vec lists the beacons.*)
C9_BeaconsEnterWithAcceptedScans ==
    /\ complete_scan = {}
    /\ [][\A p \in complete_scan' \ complete_scan :
            \/ pc = "seed" /\ p \in Range(input[1])
            \/ /\ pc = "for"
               /\ ret'.some
               /\ distances' = Append(distances, ret'.dist)
               /\ Cardinality(Coinciding(complete_scan, scans[i],
                                          ret'.mtx, ret'.dist)) >= 12
               /\ \E k \in 1..Len(scans[i]) :
                     p = Placed(ret'.mtx, ret'.dist, scans[i][k])]_vars

\* two scans accepted, the map holding beacons scan 0 did not report
C9_Witness ==
    /\ Len(distances) >= 2
    /\ scans = << >>
    /\ Cardinality(complete_scan \ Range(input[1])) >= 12

-----------------------------------------------------------------------------
(* C10: in the DONE state the second value returned is the largest          *)
(* Manhattan distance over the pairs of scanners, taken over the offsets of *)
(* every scanner, scanner 0 with offset zero among them.                    *)
AllOffsets == <<Zero>> \o distances

MaxPairDistance(offs) ==
    SetMax({Manhattan(offs[a], offs[b]) : a \in DOMAIN offs, b \in DOMAIN offs})

C10_MaxDistanceCountsScannerZero ==
    pc = "done" => result[2] = MaxPairDistance(AllOffsets)

-----------------------------------------------------------------------------
(* C11: on every input of two or more scans whose scans are all registered  *)
(* (the loop is left with none remaining), part1_2 returns the pair (beacon *)
(* count, maximum scanner-pair distance) and does not abort: two scanners,  *)
(* scanner 0 and one registered scanner, are enough for the distance.  The  *)
(* code takes the maximum over `distances` alone, which holds one offset    *)
(* for a two-scan input: max() is None and unwrap() panics.                 *)
C11_TwoScannersGiveResult ==
    [][(pc = "aggregate" /\ Len(input) >= 2)
          => /\ pc' = "done"
             /\ result'[1] = Cardinality(complete_scan)]_vars

-----------------------------------------------------------------------------
(* C12: part1_2 computes and returns its result only from a state in which  *)
(* no scan remains, every scan other than scan 0 merged into the map: no    *)
(* result comes from a partially reconstructed map.                         *)
C12_ResultOnlyWhenAllMerged ==
    (pc \in {"aggregate", "done"} \/ result # NoResult)
        => /\ scans = << >>
           /\ Len(distances) = Len(input) - 1

\* a result returned for three scans, the last of them merged in a second round
C12_Witness ==
    /\ pc = "done"
    /\ result # NoResult
    /\ Len(input) >= 3
    /\ round_len = 1

-----------------------------------------------------------------------------
(* C13: in the DONE state the first value returned is the number of         *)
(* distinct coordinates of the final map: the cardinality of the set made   *)
(* of scan 0's beacons and, for every other scan, its beacons as R*b + t    *)
(* with t the offset recorded for it and R a table orientation, the placed  *)
(* scan lying in the final map; equal coordinates are counted once.         *)

\* the beacons of a scan as an orientation and a translation place them
PlacedSet(beacons, mtx, t) == {Placed(mtx, t, beacons[k]) : k \in 1..Len(beacons)}

\* the orientations that, with translation t, place the whole scan in the map
Fit(beacons, t) ==
    {m \in Orientations : PlacedSet(beacons, m, t) \subseteq complete_scan}

\* The sets that scan 0 and scans j.. of the input make up, each scan placed
\* with one of the recorded offsets not given to another scan (free: their
\* positions in `distances`) and an orientation fitting it.
RECURSIVE Reconstructions(_, _)
Reconstructions(j, free) ==
    IF j > Len(input)
    THEN {Range(input[1])}
    ELSE UNION {UNION {{S \cup PlacedSet(input[j], m, distances[d]) :
                          S \in Reconstructions(j + 1, free \ {d})} :
                       m \in Fit(input[j], distances[d])} :
                d \in free}

C13_CountIsDistinctBeacons ==
    pc = "done" =>
        \E S \in Reconstructions(2, 1..Len(distances)) : result[1] = Cardinality(S)

\* a result for three scans: more beacons than scan 0 reports, fewer than the
\* scans list together
C13_Witness ==
    /\ pc = "done"
    /\ Len(input) = 3
    /\ result[1] > Cardinality(Range(input[1]))
    /\ result[1] < Len(input[1]) + Len(input[2]) + Len(input[3])

-----------------------------------------------------------------------------
(* C14: the 24 matrices of the table form a group under matrix              *)
(* multiplication: the identity is in the table, the product of any two     *)
(* table matrices is a table matrix, and the transpose of every table       *)
(* matrix is its inverse and is a table matrix; so is the inverse of the    *)
(* matrix a registration is accepted under.                                 *)

MatMul(a, b) ==
    << <<a[1][1] * b[1][1] + a[1][2] * b[2][1] + a[1][3] * b[3][1],
         a[1][1] * b[1][2] + a[1][2] * b[2][2] + a[1][3] * b[3][2],
         a[1][1] * b[1][3] + a[1][2] * b[2][3] + a[1][3] * b[3][3]>>,
       <<a[2][1] * b[1][1] + a[2][2] * b[2][1] + a[2][3] * b[3][1],
         a[2][1] * b[1][2] + a[2][2] * b[2][2] + a[2][3] * b[3][2],
         a[2][1] * b[1][3] + a[2][2] * b[2][3] + a[2][3] * b[3][3]>>,
       <<a[3][1] * b[1][1] + a[3][2] * b[2][1] + a[3][3] * b[3][1],
         a[3][1] * b[1][2] + a[3][2] * b[2][2] + a[3][3] * b[3][2],
         a[3][1] * b[1][3] + a[3][2] * b[2][3] + a[3][3] * b[3][3]>> >>

Identity == << <<1, 0, 0>>, <<0, 1, 0>>, <<0, 0, 1>> >>

TableMatrices == Range(CHANGE_OF_BASIS_MATRIXES)

C14_TableIsAGroup ==
    /\ ret.some => Transpose(CHANGE_OF_BASIS_MATRIXES[ret.mtx]) \in TableMatrices
    /\ Identity \in TableMatrices
    /\ \A a, b \in TableMatrices : MatMul(a, b) \in TableMatrices
    /\ \A a \in TableMatrices :
          /\ Transpose(a) \in TableMatrices
          /\ MatMul(a, Transpose(a)) = Identity
          /\ MatMul(Transpose(a), a) = Identity

\* a registration accepted under a matrix whose inverse is another matrix of
\* the table
C14_Witness ==
    /\ ret.some
    /\ Transpose(CHANGE_OF_BASIS_MATRIXES[ret.mtx]) # CHANGE_OF_BASIS_MATRIXES[ret.mtx]
    /\ Transpose(CHANGE_OF_BASIS_MATRIXES[ret.mtx]) \in TableMatrices

-----------------------------------------------------------------------------
(* C16: in one round every scan that was in `scans` at the start of the     *)
(* round is passed to try_update_scan exactly once, none skipped and none   *)
(* tried twice, although swap_remove moves scans during the iteration.  In  *)
(* steps: the round starts with every scan ahead of the index (positions    *)
(* 1..i are the scans not tried yet); an attempt tries the last of them and *)
(* leaves the others where they were, whatever it removes; what lies behind *)
(* the index afterwards was tried before or just now; the index moves down  *)
(* by one, and the round ends only when no scan is ahead of it.             *)
C16_EveryScanTriedOncePerRound ==
    [][/\ (pc = "while" /\ pc' = "for") => (i' = Len(scans) /\ scans' = scans)
       /\ pc = "for" =>
             /\ i \in 1..Len(scans)
             /\ Len(scans') >= i - 1
             /\ SubSeq(scans', 1, i - 1) = SubSeq(scans, 1, i - 1)
             /\ \A k \in i..Len(scans') : \E j \in i..Len(scans) : scans'[k] = scans[j]
             /\ IF i > 1
                THEN pc' = "for" /\ i' = i - 1
                ELSE pc' = "while"]_vars

\* a round of two scans: the second failed, the first was then accepted and
\* swap_remove put the second, already tried, in its place
C16_Witness ==
    /\ pc = "while"
    /\ round_len = 2
    /\ i = 0
    /\ ret.some
    /\ Len(input) = 3
    /\ scans = <<input[3]>>

-----------------------------------------------------------------------------
(* C17: the overlap count compared with 12 is the number of distinct        *)
(* coordinates the translated scan shares with the reference: a coordinate  *)
(* the scan lists several times counts once, so a scan is accepted only     *)
(* with 12 distinct shared coordinates, and a scan of fewer than 12         *)
(* distinct beacons is never accepted.  The code counts the elements of the *)
(* Vec, one per listing.                                                    *)

\* the distinct coordinates of the placed scan that are points of ref
SharedCoordinates(ref, beacons, mtx, t) == PlacedSet(beacons, mtx, t) \cap ref

C17_OverlapCountsDistinct ==
    [][(pc = "for" /\ ret'.some)
          => /\ Cardinality(SharedCoordinates(complete_scan, scans[i],
                                               ret'.mtx, ret'.dist)) >= 12
             /\ Cardinality(Range(scans[i])) >= 12]_vars

-----------------------------------------------------------------------------
(* C18: try_update_scan returns None only if under every one of the 24      *)
(* orientations and every translation of the form (reference point minus    *)
(* rotated candidate point) fewer than 12 translated candidate beacons are  *)
(* in the reference: the search is left early only by accepting.            *)
C18_NoneOnlyWhenExhausted ==
    [][(pc = "for" /\ ~ret'.some)
          => \A m \in Orientations : \A t \in Translations(complete_scan, scans[i], m) :
                Cardinality(Coinciding(complete_scan, scans[i], m, t)) < 12]_vars

\* a failed search over a scan of 12 beacons or more against a map that a
\* registration has enlarged
C18_Witness ==
    /\ JustFailed
    /\ Len(distances) >= 1
    /\ Len(scans[i + 1]) >= 12
    /\ Translations(complete_scan, scans[i + 1], 1) # {}
    /\ ~Alignable(complete_scan, scans[i + 1], 12)

-----------------------------------------------------------------------------
(* C19: when try_update_scan accepts under orientation number k of the      *)
(* table, no orientation of smaller index has a candidate translation       *)
(* reaching an overlap of 12, and the accepted translation is the first of  *)
(* orientation k, in enumeration order, to reach 12; nothing is examined    *)
(* after the acceptance.  The enumeration runs the reference points in the  *)
(* hash set's order and, for each, the scan's beacons in the Vec's order:   *)
(* the accepted translation is r - R*b for a reference point r and the      *)
(* first beacon b of the scan that reaches 12 with r, and the map takes     *)
(* the beacons placed by this orientation and translation and no others.    *)
(* The overlap is counted as the code counts it.                            *)

\* the overlap of the scan under orientation mtx, translated by r - R*b
OverlapAt(ref, beacons, mtx, r, k) ==
    Cardinality(Coinciding(ref, beacons, mtx,
        VSub(r, MatVec(CHANGE_OF_BASIS_MATRIXES[mtx], beacons[k]))))

C19_FirstOrientationFirstTranslation ==
    [][(pc = "for" /\ ret'.some)
          => /\ \A m \in 1..(ret'.mtx - 1) :
                   \A t \in Translations(complete_scan, scans[i], m) :
                      Cardinality(Coinciding(complete_scan, scans[i], m, t)) < 12
             /\ \E r \in complete_scan : \E k \in 1..Len(scans[i]) :
                   /\ ret'.dist = VSub(r, MatVec(CHANGE_OF_BASIS_MATRIXES[ret'.mtx],
                                                 scans[i][k]))
                   /\ OverlapAt(complete_scan, scans[i], ret'.mtx, r, k) >= 12
                   /\ \A j \in 1..(k - 1) :
                         OverlapAt(complete_scan, scans[i], ret'.mtx, r, j) < 12
             /\ complete_scan' =
                   complete_scan \cup PlacedSet(scans[i], ret'.mtx, ret'.dist)]_vars

\* a scan accepted under the first orientation of the table when later
\* orientations reach 12 as well
C19_Witness ==
    /\ ret.some
    /\ ret.mtx = 1
    /\ Len(input) = 2
    /\ Len(distances) = 1
    /\ \E m \in Orientations \ {1} :
          \E t \in Translations(Range(input[1]), input[2], m) :
             Cardinality(Coinciding(Range(input[1]), input[2], m, t)) >= 12

-----------------------------------------------------------------------------
(* C20: within a round a scan is tested against the map as it is at its     *)
(* turn, enlarged by the registrations made earlier in the round, not       *)
(* against the map of the round's start: it is accepted exactly when 12 of  *)
(* its beacons can be placed on the current map.  On a success exactly the  *)
(* returned translation is appended to `distances` and exactly the scan     *)
(* tried is removed from `scans`; on a failure both are left alone.         *)

\* how many times scan s is in v
Count(v, s) == Cardinality({k \in DOMAIN v : v[k] = s})

C20_RoundSeesEnlargedMap ==
    [][pc = "for"
          => /\ ret'.some <=> Alignable(complete_scan, scans[i], 12)
             /\ ret'.some
                   => /\ distances' = Append(distances, ret'.dist)
                      /\ Len(scans') = Len(scans) - 1
                      /\ \A s \in Range(scans) :
                            Count(scans', s) =
                               Count(scans, s) - (IF s = scans[i] THEN 1 ELSE 0)
             /\ ~ret'.some => (distances' = distances /\ scans' = scans)]_vars

\* both scans of a first round accepted, one of them sharing fewer than 12
\* beacons with scan 0: it was accepted on the map the other had enlarged
C20_Witness ==
    /\ pc = "while"
    /\ Len(input) = 3
    /\ round_len = 2
    /\ scans = << >>
    /\ Len(distances) = 2
    /\ \E j \in 2..3 : ~Alignable(Range(input[1]), input[j], 12)

-----------------------------------------------------------------------------
(* C21: a complete round that registers no scan leaves the map, the offsets *)
(* and the remaining scans as they were at its start, and every later round *)
(* over that state registers no scan either.  In steps: an attempt that     *)
(* fails changes none of the three; after a round that removed nothing, no  *)
(* remaining scan can be placed on the map with 12 beacons on it; and from  *)
(* a state of the loop where none can, every step leaves the three as they  *)
(* are, so none ever can.                                                   *)

\* the round that has just ended removed no scan
IdleRound == pc = "while" /\ round_len > 0 /\ Len(scans) = round_len

\* no remaining scan can be registered on the map as it is
NoProgress ==
    /\ pc \in {"while", "for"}
    /\ scans # << >>
    /\ \A k \in 1..Len(scans) : ~Alignable(complete_scan, scans[k], 12)

C21_NoProgressIsStable ==
    /\ [](IdleRound => NoProgress)
    /\ [][/\ (pc = "for" /\ ~ret'.some)
                => /\ complete_scan' = complete_scan
                   /\ distances' = distances
                   /\ scans' = scans
          /\ NoProgress
                => /\ complete_scan' = complete_scan
                   /\ distances' = distances
                   /\ scans' = scans
                   /\ pc = "for" => ~ret'.some
                   /\ pc' \in {"while", "for"}]_vars

\* a round that registered nothing, after a round that registered a scan
C21_Witness ==
    /\ IdleRound
    /\ NoProgress
    /\ Len(distances) >= 1
    /\ Len(scans[1]) >= 12

-----------------------------------------------------------------------------
(* C22: before the first registration attempt the map is exactly the set of *)
(* scan 0's beacons, neither rotated nor translated, and `scans` holds      *)
(* every other scan of the input, in the input's order, and not scan 0.     *)

\* the loop not entered yet, or its first attempt about to be made
BeforeFirstAttempt ==
    \/ pc = "while" /\ round_len = 0
    \/ pc = "for" /\ i = round_len /\ distances = << >>

C22_SeededWithScanZero ==
    BeforeFirstAttempt
        => /\ complete_scan = Range(input[1])
           /\ scans = Tail(input)
           /\ Len(scans) = Len(input) - 1
           /\ distances = << >>

\* the first attempt about to be made, two scans remaining, scan 0 a scan of
\* distinct beacons that is not among them
C22_Witness ==
    /\ pc = "for"
    /\ i = round_len
    /\ distances = << >>
    /\ Len(scans) = 2
    /\ Cardinality(complete_scan) = Len(input[1])
    /\ \A k \in 1..Len(scans) : scans[k] # input[1]

-----------------------------------------------------------------------------
(* C23: a registration attempt changes the beacon list of no scan, the      *)
(* candidate's or another's: a failed attempt leaves `scans` as it was, a   *)
(* successful one removes the registered scan and no other, the scans that  *)
(* stay keeping their beacon lists though not always their index; the       *)
(* scans of the input are not touched.                                      *)

\* w holds the scans of v other than the one at position k, each once, with
\* their beacon lists as they were
RemovedOnly(v, w, k) ==
    /\ Len(w) = Len(v) - 1
    /\ \E f \in [1..Len(w) -> (1..Len(v)) \ {k}] :
          /\ \A a, b \in 1..Len(w) : a # b => f[a] # f[b]
          /\ \A a \in 1..Len(w) : w[a] = v[f[a]]

C23_AttemptsLeaveScansIntact ==
    [][pc = "for"
          => /\ input' = input
             /\ ~ret'.some => scans' = scans
             /\ ret'.some => RemovedOnly(scans, scans', i)]_vars

\* a round of two scans: the second registered and was removed, the first
\* failed and is still there with its beacons
C23_Witness ==
    /\ pc = "while"
    /\ round_len = 2
    /\ ~ret.some
    /\ Len(distances) = 1
    /\ Len(input) = 3
    /\ scans = <<input[2]>>

-----------------------------------------------------------------------------
(* C24: for an input of N scans, after the seeding and after every          *)
(* registration attempt the number of recorded offsets plus the number of   *)
(* scans remaining is N - 1: a scan other than scan 0 is either remaining   *)
(* or has one recorded offset, never both and never neither.  An attempt    *)
(* records an offset exactly when it removes a scan.                        *)
C24_OffsetsPlusRemaining ==
    /\ [](pc # "seed" => Len(distances) + Len(scans) = Len(input) - 1)
    /\ [][pc = "for"
             => \/ Len(distances') = Len(distances) /\ Len(scans') = Len(scans)
                \/ /\ Len(distances') = Len(distances) + 1
                   /\ Len(scans') = Len(scans) - 1]_vars

\* in the middle of a round of three scans: one offset recorded, one scan
\* remaining
C24_Witness ==
    /\ pc = "for"
    /\ Len(input) = 3
    /\ Len(distances) = 1
    /\ Len(scans) = 1
    /\ ret.some

-----------------------------------------------------------------------------
(* C25: on inputs whose scans are chain-linked and can each be placed in    *)
(* one way only, the pair returned does not depend on the order in which    *)
(* the remaining scans are tried nor on the order in which the reference    *)
(* points are enumerated: it is the pair that scan 0 and the other scans    *)
(* determine whatever the order, the size of the map obtained by adding     *)
(* every placement that reaches 12 and the largest distance between the     *)
(* positions of two scans other than scan 0 (the pairs the code looks at).  *)

\* The translations carrying one of the first Len - 11 beacons of the scan
\* onto a point of S: when 12 beacons are placed on S at most Len - 12 are
\* not, so every placement reaching 12 is among these.
AnchoredTranslations(S, beacons, mtx) ==
    {VSub(r, MatVec(CHANGE_OF_BASIS_MATRIXES[mtx], beacons[k])) :
        r \in S, k \in 1..(Len(beacons) - 11)}

\* the orientations and translations that place 12 beacons of a scan on S
Placements(S, beacons) ==
    {p \in UNION {{<<m, t>> : t \in AnchoredTranslations(S, beacons, m)} :
                  m \in Orientations} :
        Cardinality(Coinciding(S, beacons, p[1], p[2])) >= 12}

\* S with every scan added under every placement it has, until none adds
RECURSIVE Closure(_, _)
Closure(in, S) ==
    LET more == UNION {UNION {PlacedSet(in[j], p[1], p[2]) : p \in Placements(S, in[j])} :
                       j \in 2..Len(in)}
    IN  IF more \subseteq S THEN S ELSE Closure(in, S \cup more)

\* the full map of an input, and the positions each scan can be given on it
Survey(in) ==
    LET full == Closure(in, Range(in[1]))
    IN  [full |-> full,
         positions |-> [j \in 2..Len(in) |-> {p[2] : p \in Placements(full, in[j])}]]

\* every scan can be placed, and at one position only
Consistent(sv) == \A j \in DOMAIN sv.positions : Cardinality(sv.positions[j]) = 1

OrderFreeResult(sv) ==
    LET at == [j \in DOMAIN sv.positions |-> CHOOSE t \in sv.positions[j] : TRUE]
    IN  << Cardinality(sv.full),
           SetMax({Manhattan(at[a], at[b]) : a \in DOMAIN at, b \in DOMAIN at}) >>

C25_ResultIndependentOfOrder ==
    LET sv == Survey(input)
    IN  (pc = "done" /\ ChainLinked(input) /\ Consistent(sv))
            => result = OrderFreeResult(sv)

\* a result for an input whose last scan can only be registered after the
\* one before it, so that it waits for a second round; the scans given in
\* the other order determine the same pair
C25_Witness ==
    /\ pc = "done"
    /\ round_len = 1
    /\ Len(input) = 3
    /\ ~Overlapping(input[3], input[1])
    /\ ChainLinked(input)
    /\ LET sv == Survey(input)
           other == Survey(<<input[1], input[3], input[2]>>)
       IN  /\ Consistent(sv)
           /\ Consistent(other)
           /\ result = OrderFreeResult(other)

-----------------------------------------------------------------------------
(* C26: try_update_scan called with an empty reference set or with a scan   *)
(* of no beacon has no candidate translation to try and returns None, the   *)
(* reference unchanged; so in part1_2 a scan of no beacon is not registered *)
(* and is never removed from `scans`.                                       *)

\* the positions 2.. of the input that hold a scan of no beacon
EmptyScans == {j \in 2..Len(input) : input[j] = << >>}

C26_NothingToAlign ==
    /\ [][(pc = "call" /\ (complete_scan = {} \/ scans[1] = << >>))
             => /\ \A m \in Orientations : Translations(complete_scan, scans[1], m) = {}
                /\ ~ret'.some
                /\ complete_scan' = complete_scan]_vars
    /\ [][(pc = "for" /\ scans[i] = << >>)
             => /\ \A m \in Orientations : Translations(complete_scan, scans[i], m) = {}
                /\ ~ret'.some
                /\ complete_scan' = complete_scan
                /\ scans' = scans]_vars
    /\ []((pc \in {"while", "for"} /\ EmptyScans # {})
             => Count(scans, << >>) = Cardinality(EmptyScans))

\* try_update_scan has returned from a call with an empty set and a scan of
\* 12 beacons or more
C26_Witness ==
    /\ pc = "returned"
    /\ input[1] = << >>
    /\ Len(input[2]) >= 12
    /\ ~ret.some
    /\ complete_scan = {}

-----------------------------------------------------------------------------
(* C27: a successful registration of a scan of n pairwise distinct beacons  *)
(* enlarges the map by at most n - 12 beacons; hence, when no scan lists a  *)
(* beacon twice, the count returned is at most the number of beacons all    *)
(* the scans list together minus 12 for every registered scan.              *)

\* no coordinate is listed twice in the scan
DuplicateFree(beacons) == Cardinality(Range(beacons)) = Len(beacons)

C27_GrowthBound ==
    /\ [][(pc = "for" /\ ret'.some /\ DuplicateFree(scans[i]))
             => Cardinality(complete_scan')
                   <= Cardinality(complete_scan) + Len(scans[i]) - 12]_vars
    /\ []((pc = "done" /\ \A j \in 1..Len(input) : DuplicateFree(input[j]))
             => result[1] <= Entries(input) - 12 * Len(distances))

\* a scan of 13 distinct beacons registered on scan 0: the map has grown, by
\* 13 - 12 beacons
C27_Witness ==
    /\ ret.some
    /\ Len(input) = 2
    /\ Len(distances) = 1
    /\ DuplicateFree(input[2])
    /\ Cardinality(complete_scan) > Cardinality(Range(input[1]))
    /\ Cardinality(complete_scan) = Cardinality(Range(input[1])) + Len(input[2]) - 12

-----------------------------------------------------------------------------
(* C28: when every scan is linked to scan 0 by a chain of scans sharing at  *)
(* least 12 beacons, every round that starts with scans remaining registers *)
(* at least one, so an input of N scans is finished within N - 1 rounds: no *)
(* round ends with as many scans as it started with, and every round after  *)
(* the first, which starts with N - 1 scans, starts with fewer scans than   *)
(* the round before it.                                                     *)
C28_EveryRoundRegisters ==
    /\ [](IdleRound => ~ChainLinked(input))
    /\ [][(pc = "while" /\ pc' = "for" /\ round_len > 0 /\ ChainLinked(input))
             => round_len' < round_len]_vars

\* a chain-linked input of three scans in its second round: the first round
\* registered one scan of two, the other is the one left
C28_Witness ==
    /\ pc = "for"
    /\ round_len = 1
    /\ Len(input) = 3
    /\ Len(distances) = 1
    /\ ChainLinked(input)

-----------------------------------------------------------------------------
(* C29: parse_input returns the scans in the order of their header lines,   *)
(* each with its beacons in the order of the input, and returns no scan of  *)
(* zero beacons: a scan is saved only if it has content, the last scan of   *)
(* the file like the others.  The scan open when the lines run out is       *)
(* pushed without the test.                                                 *)

\* the elements of a set of numbers in increasing order
RECURSIVE Ascending(_)
Ascending(S) ==
    IF S = {}
    THEN << >>
    ELSE LET least == CHOOSE x \in S : \A y \in S : x <= y
         IN  <<least>> \o Ascending(S \ {least})

IsPoint(line) == line.kind = "point"

HasContent(beacons) == beacons # << >>

\* the beacons of the point lines among lines a..b of the file, in order
PointsBetween(file, a, b) ==
    LET points == SelectSeq(SubSeq(file, a, b), IsPoint)
    IN  [k \in 1..Len(points) |-> SubSeq(points[k].fields, 1, 3)]

\* the file cut at its header lines: the beacons before the first header,
\* between consecutive headers, and after the last
Blocks(file) ==
    LET cuts == Ascending({0, Len(file) + 1}
                    \cup {k \in 1..Len(file) : file[k].kind = "header"})
    IN  [b \in 1..(Len(cuts) - 1) |-> PointsBetween(file, cuts[b] + 1, cuts[b + 1] - 1)]

\* the scans with content, in the order of the file
ScansWithContent(file) == SelectSeq(Blocks(file), HasContent)

C29_ParseKeepsOrderDropsEmpty ==
    pc = "parsed"
        => /\ input = ScansWithContent(lines)
           /\ \A k \in 1..Len(input) : input[k] # << >>

====
